---- MODULE Spec2Model ----
(***************************************************************************)
(* SEC filings dashboard (src/app.py and its earlier revision              *)
(* src/bmnr_real_time_sec_filings_dashboard_streamlit_app.py).             *)
(*                                                                         *)
(* Five specifications share the variables below:                          *)
(*   SpecRule  - the rule-based classifier applied to bounded texts        *)
(*   SpecCik   - pad_cik, the "no identifier" guard and the submissions    *)
(*               fetch                                                     *)
(*   SpecCache - the st.cache_data memo of the three cached operations,    *)
(*               with a clock                                              *)
(*   SpecRun   - one script run: catalog builder and the render loop       *)
(*   SpecHttp  - one GET through the shared session: the retry policy of   *)
(*               make_session and the tail of the fetching function        *)
(***************************************************************************)
EXTENDS Integers, Sequences, FiniteSets, TLC

VARIABLES
    \* ---- classifier (SpecRule)
    form,        \* the form argument of the classifier
    text,        \* the text argument: a sequence of phrases
    rs,          \* the dict the classifier returned, or NoResult
    fn,          \* which classifier produced rs
    paragraph,   \* compact_paragraph_from_rule(rs), or NoResult
    \* ---- one script run (SpecCik, SpecRun)
    variant,     \* "app" (src/app.py) or "bmnr" (the earlier revision)
    pc,          \* position of the script
    cikInput,    \* st.text_input("CIK (10 digits)")
    cik10,       \* the company identifier
    use_ai,      \* st.checkbox("Use OpenAI one-paragraph summaries")
    max_ai,      \* st.slider("Max AI summaries this run")
    api_key,     \* get_secret("OPENAI_API_KEY", ""); "" when absent
    openai_ok,   \* the openai package imported (OpenAI is not None)
    forms_filter,\* st.multiselect("Filter form types")
    keyword,     \* st.text_input("Keyword filter (optional)")
    max_rows,    \* st.slider("Number of recent filings")
    company,     \* the submissions record, a dict
    df,          \* the DataFrame of displayed filings
    idx,         \* number of rows of df the render loop has consumed
    ai_calls,    \* the render loop's counter
    shown,       \* what the loop rendered, one record per consumed row
    log,         \* sleeps and external calls of the pass, in order
    notice,      \* st.info / st.warning / st.error of the pass, or the exception
    fetches,     \* calls of fetch_company_submissions in the pass
    \* ---- the st.cache_data memo (SpecCache)
    cachedFn,    \* the cached function whose store the behaviour follows
    now,         \* the clock, in seconds
    cache,       \* the store: key -> entry
    last,        \* the last lookup and what it returned
    ticks,       \* clock steps taken
    \* ---- one GET through SESSION (SpecHttp)
    httpFn,      \* the fetching function that issued the GET
    httpPc,      \* "idle", "sending", "returned" or "raised"
    retry,       \* the Retry object of the request: its remaining counts
    attempts,    \* requests put on the wire so far
    response,    \* the last thing the wire gave: a status or an error
    retried,     \* what each re-send was caused by, in order
    result,      \* what the fetching function gave its caller
    httpNotice   \* st.warning of the fetching function, or "none"

ruleVars == <<form, text, rs, fn, paragraph>>

inputVars == <<variant, cikInput, use_ai, max_ai, api_key, openai_ok,
               forms_filter, keyword, max_rows>>

runVars == <<inputVars, pc, cik10, company, df, idx, ai_calls, shown, log,
             notice, fetches>>

cacheVars == <<cachedFn, now, cache, last, ticks>>

httpVars == <<httpFn, httpPc, retry, attempts, response, retried, result, httpNotice>>

vars == <<ruleVars, runVars, cacheVars, httpVars>>

NoResult == [none |-> TRUE]

Min(a, b) == IF a < b THEN a ELSE b

(***************************************************************************)
(* Rule-based signals.  A text is a sequence of phrases; a phrase is       *)
(* identified with the set of KEY_PATTERNS categories whose regular        *)
(* expression matches inside it.  The scanning window text[:4000] is a     *)
(* prefix of SnippetLen phrases.                                           *)
(***************************************************************************)
MaxTextLen == 2
SnippetLen == 1

\* KEY_PATTERNS.keys()
Categories == {"financing", "insider", "crypto", "buyback", "guidance", "material"}

Phrases == SUBSET Categories

Forms == {"8-K", "4"}

Texts == UNION {[1..n -> Phrases] : n \in 0..MaxTextLen}

\* snippet = text[:4000] if text else ""
Snippet(t) == SubSeq(t, 1, Min(Len(t), SnippetLen))

\* bool(re.search(p, snippet, re.IGNORECASE))
Search(k, snippet) == \E i \in 1..Len(snippet) : k \in snippet[i]

\* hits = {k: bool(re.search(...)) for k, p in KEY_PATTERNS.items()}
Hits(t) == [k \in Categories |-> Search(k, Snippet(t))]

\* impact = "Positive" if score >= 2 else ("Negative" if score <= -2 else "Neutral")
ImpactOf(score) ==
    IF score >= 2 THEN "Positive" ELSE IF score <= -2 THEN "Negative" ELSE "Neutral"

\* ---- app.py
ScoreFinancingDominates(hits) ==
    IF hits["financing"] THEN -2
    ELSE (IF hits["buyback"] THEN 2 ELSE 0) + (IF hits["material"] THEN 1 ELSE 0)

Score(hits) ==
    LET s0 == 0
        s1 == IF hits["buyback"] THEN s0 + 2 ELSE s0
        s2 == IF hits["financing"] THEN s1 - 2 ELSE s1
        s3 == IF hits["material"] THEN s2 + 1 ELSE s2
    IN  s3

HeadlineSuffixByScore(hits) ==
    IF hits["financing"] THEN "financing/dilution signals"
    ELSE IF hits["buyback"] THEN "buyback mentioned"
    ELSE IF hits["material"] THEN "material agreement or event"
    ELSE IF hits["insider"] THEN "insider/ownership update"
    ELSE "no strong signal"

HeadlineSuffix(hits) ==
    IF hits["buyback"] THEN "buyback mentioned"
    ELSE IF hits["financing"] THEN "financing/dilution signals"
    ELSE IF hits["material"] THEN "material agreement or event"
    ELSE IF hits["insider"] THEN "insider/ownership update"
    ELSE "no strong signal"

BulletMaterial  == "Material item(s) indicated (e.g., Item 1.01/2.01/5.02/5.07)."
BulletFinancing == "Financing activity detected (ATM/PIPE/warrants/shelf). Potential dilution risk."
BulletBuyback   == "Repurchase/buyback language detected."
BulletInsider   == "Insider/beneficial ownership or equity grants referenced."
BulletCrypto    == "Crypto/mining references present (BTC/ETH/hashrate)."
BulletGuidance  == "Guidance/outlook language present."

\* bullets.append(...) guarded by each hit
AppendIf(c, seq, b) == IF c THEN Append(seq, b) ELSE seq

BulletsScoringOnly(hits) ==
    LET b1 == AppendIf(hits["material"], <<>>, BulletMaterial)
        b2 == AppendIf(hits["financing"], b1, BulletFinancing)
        b3 == AppendIf(hits["buyback"], b2, BulletBuyback)
    IN  b3

Bullets(hits) ==
    LET b1 == AppendIf(hits["material"], <<>>, BulletMaterial)
        b2 == AppendIf(hits["financing"], b1, BulletFinancing)
        b3 == AppendIf(hits["buyback"], b2, BulletBuyback)
        b4 == AppendIf(hits["insider"], b3, BulletInsider)
        b5 == AppendIf(hits["crypto"], b4, BulletCrypto)
        b6 == AppendIf(hits["guidance"], b5, BulletGuidance)
    IN  b6

\* headline = f"{form}: {impact} - " + suffix, kept as its three pieces
rule_summary(f, t) ==
    LET hits   == Hits(t)
        impact == ImpactOf(Score(hits))
    IN  [impact   |-> impact,
         headline |-> <<f, impact, HeadlineSuffix(hits)>>,
         bullets  |-> Bullets(hits)]

\* bits = " ".join(b.rstrip(".") + "." for b in bullets); headline + " " + bits
compact_paragraph_from_rule(r) ==
    [source |-> "rule", headline |-> r.headline, bits |-> r.bullets]

\* ---- bmnr_real_time_sec_filings_dashboard_streamlit_app.py
LegacyScore(hits) ==
    LET s0 == 0
        s1 == IF hits["buyback"] THEN s0 + 2 ELSE s0
        s2 == IF hits["financing"] THEN s1 - 2 ELSE s1
        s3 == IF hits["material"] THEN s2 + 1 ELSE s2
        s4 == IF hits["insider"] THEN s3 - 0 ELSE s3
        s5 == IF hits["crypto"] THEN s4 + 0 ELSE s4
    IN  s5

LegacyBullets(hits) ==
    LET b1 == AppendIf(hits["material"], <<>>, BulletMaterial)
        b2 == AppendIf(hits["financing"], b1, BulletFinancing)
        b3 == AppendIf(hits["buyback"], b2, BulletBuyback)
        b4 == AppendIf(hits["insider"], b3, BulletInsider)
        b5 == AppendIf(hits["crypto"], b4, BulletCrypto)
        b6 == AppendIf(hits["guidance"], b5, BulletGuidance)
    IN  b6

LegacyHeadlineSuffix(hits) ==
    IF hits["buyback"] THEN "buyback mentioned"
    ELSE IF hits["financing"] THEN "financing/dilution signals"
    ELSE IF hits["material"] THEN "material agreement or event"
    ELSE IF hits["insider"] THEN "insider/ownership update"
    ELSE "no strong signal"

generate_rule_based_summary(f, t) ==
    LET hits   == Hits(t)
        impact == ImpactOf(LegacyScore(hits))
    IN  [impact   |-> impact,
         headline |-> <<f, impact, LegacyHeadlineSuffix(hits)>>,
         bullets  |-> LegacyBullets(hits),
         flags    |-> hits]

(***************************************************************************)
(* One script run.  Streamlit runs the script top to bottom; pc is the     *)
(* section the run has reached.  The widgets hold their values before the  *)
(* run starts.  CIK lookup mode (the default) is modelled.                 *)
(***************************************************************************)
MaxCikLen  == 11
MaxFilings == 3
MaxAi      == 2

CikWidth == 10

Digits == {"0", "1", "2", "3", "4", "5", "6", "7", "8", "9"}

InputChars == {"7", "-"}

CikInputs == UNION {[1..n -> InputChars] : n \in 0..MaxCikLen}

IsDigit(c) == c \in Digits

\* s.zfill(10): pads on the left, never truncates
zfill(s, w) ==
    IF Len(s) >= w THEN s ELSE [i \in 1..(w - Len(s)) |-> "0"] \o s

\* s = re.sub(r"\D", "", cik or ""); return s.zfill(10) if s else ""
pad_cik(cik) ==
    LET s == SelectSeq(cik, IsDigit)
    IN  IF s # <<>> THEN zfill(s, CikWidth) ELSE <<>>

RunIdle ==
    /\ variant = "app"
    /\ pc = "off"
    /\ cikInput = <<>>
    /\ cik10 = <<>>
    /\ use_ai = FALSE
    /\ max_ai = 0
    /\ api_key = ""
    /\ openai_ok = TRUE
    /\ forms_filter = {}
    /\ keyword = ""
    /\ max_rows = 1
    /\ company = <<>>
    /\ df = [columns |-> {}, rows |-> <<>>]
    /\ idx = 0
    /\ ai_calls = 0
    /\ shown = <<>>
    /\ log = <<>>
    /\ notice = "none"
    /\ fetches = 0

\* no store is followed outside SpecCache
NoEntry == [present |-> FALSE, at |-> 0, val |-> [body |-> "", made |-> 0],
            by |-> <<>>]

NoLookup == [n |-> 0, key |-> <<>>, ret |-> [body |-> "", made |-> 0],
             raised |-> FALSE, invoked |-> FALSE, ext_called |-> FALSE,
             ext_failed |-> FALSE, by |-> <<>>]

CacheIdle ==
    /\ cachedFn = "none"
    /\ now = 0
    /\ cache = <<>>
    /\ last = NoLookup
    /\ ticks = 0

\* no request is followed outside SpecHttp
NoRetry == [total |-> 0, connect |-> 0, read |-> 0]

NoResponse == [kind |-> "none", status |-> 0, retry_after |-> FALSE]

HttpIdle ==
    /\ httpFn = "none"
    /\ httpPc = "idle"
    /\ retry = NoRetry
    /\ attempts = 0
    /\ response = NoResponse
    /\ retried = <<>>
    /\ result = "none"
    /\ httpNotice = "none"

RuleIdle ==
    /\ form = "8-K"
    /\ text = <<>>
    /\ rs = NoResult
    /\ fn = "off"
    /\ paragraph = NoResult

RunCikInputs == {<<"-">>, <<"7">>}

\* the slider of the earlier revision: st.slider("Max filings to show", 5, 100, 30, step=5)
LegacyMinRows == 5

InitInputs ==
    /\ variant \in {"app", "bmnr"}
    /\ forms_filter \in {{}, {"8-K"}}
    /\ keyword \in {"", "8-k"}
    /\ IF variant = "app"
       THEN /\ use_ai \in BOOLEAN
            /\ max_ai \in 0..MaxAi
            /\ \E c \in {<<"", TRUE>>, <<"sk-1", TRUE>>, <<"sk-1", FALSE>>} :
                   api_key = c[1] /\ openai_ok = c[2]
            /\ max_rows \in 1..MaxFilings
       ELSE /\ use_ai = FALSE
            /\ max_ai = 0
            /\ api_key = ""
            /\ openai_ok = TRUE
            /\ max_rows = LegacyMinRows

InitPass ==
    /\ pc = "sidebar"
    /\ cik10 = <<>>
    /\ company = <<>>
    /\ df = [columns |-> {}, rows |-> <<>>]
    /\ idx = 0
    /\ ai_calls = 0
    /\ shown = <<>>
    /\ log = <<>>
    /\ notice = "none"
    /\ fetches = 0

\* cik10 = pad_cik(st.text_input("CIK (10 digits)", value=DEFAULT_CIK))
Sidebar ==
    /\ pc = "sidebar"
    /\ cik10' = pad_cik(cikInput)
    /\ pc' = "guard"
    /\ UNCHANGED <<inputVars, company, df, idx, ai_calls, shown, log, notice, fetches>>
    /\ UNCHANGED <<ruleVars, cacheVars, httpVars>>

\* if not cik10: st.info("Enter a ticker or CIK to begin."); st.stop()
Guard ==
    /\ pc = "guard"
    /\ IF cik10 = <<>>
       THEN /\ notice' = "Enter a ticker or CIK to begin."
            /\ pc' = "stopped"
       ELSE /\ notice' = notice
            /\ pc' = "fetch"
    /\ UNCHANGED <<inputVars, cik10, company, df, idx, ai_calls, shown, log, fetches>>
    /\ UNCHANGED <<ruleVars, cacheVars, httpVars>>

(***************************************************************************)
(* The submissions record.  A dict is a function on its keys; filings are  *)
(* numbered 1..n, the accession number of filing i is i.                   *)
(***************************************************************************)
EmptyDict == [k \in {} |-> 0]

Cols == {"accessionNumber", "filingDate", "form"}

DateArrays(n) == {[i \in 1..n |-> i], [i \in 1..n |-> n + 1 - i]}

RecentArrays ==
    UNION {{[accessionNumber |-> [i \in 1..n |-> i], filingDate |-> d, form |-> f] :
                d \in DateArrays(n), f \in [1..n -> Forms]} : n \in 0..MaxFilings}

Recents == {EmptyDict, [form |-> <<>>]} \cup RecentArrays

Companies ==
    {[name |-> "Co"], [name |-> "Co", filings |-> EmptyDict]}
        \cup {[name |-> "Co", filings |-> [recent |-> r]] : r \in Recents}

\* try: company = fetch_company_submissions(cik10)
\* except Exception as e: st.error(f"Failed to fetch submissions: {e}"); st.stop()
FetchSubmissions ==
    /\ pc = "fetch"
    /\ fetches' = fetches + 1
    /\ \/ /\ notice' = "Failed to fetch submissions"
          /\ pc' = "stopped"
          /\ company' = company
       \/ /\ company' \in Companies
          /\ pc' = "catalog"
          /\ notice' = notice
    /\ UNCHANGED <<inputVars, cik10, df, idx, ai_calls, shown, log>>
    /\ UNCHANGED <<ruleVars, cacheVars, httpVars>>

\* d.get(k, default)
Get(d, k, default) == IF k \in DOMAIN d THEN d[k] ELSE default

\* str.lower() of the strings a row serialises
Lower(str) == IF str = "8-K" THEN "8-k" ELSE str

\* kw in str(r.to_dict()).lower()
KeywordIn(kw, row) == kw = Lower(row.form)

\* the row with the latest filingDate
Latest(rows) ==
    CHOOSE i \in 1..Len(rows) : \A j \in 1..Len(rows) : rows[j].filingDate <= rows[i].filingDate

Without(rows, i) == SubSeq(rows, 1, i - 1) \o SubSeq(rows, i + 1, Len(rows))

RECURSIVE SortDesc(_)
\* df.sort_values("filingDate", ascending=False)
SortDesc(rows) ==
    IF rows = <<>> THEN <<>>
    ELSE LET i == Latest(rows) IN <<rows[i]>> \o SortDesc(Without(rows, i))

\* .head(max_rows)
HeadRows(rows, n) == SubSeq(rows, 1, Min(Len(rows), n))

\* pd.DataFrame(rows): a frame built from no rows has no columns
DataFrame(rows) == [columns |-> IF rows = <<>> THEN {} ELSE Cols, rows |-> rows]

\* rows = []; for i in range(len(recent.get("accessionNumber", []))): ...
Rows(recent) ==
    LET n == Len(Get(recent, "accessionNumber", <<>>))
        none == [i \in 1..n |-> "None"]
    IN  [i \in 1..n |-> [c \in Cols |-> Get(recent, c, none)[i]]]

\* if forms_filter: df = df[df["form"].isin(forms_filter)]
FilterForms(frame, ff) ==
    IF ff = {} THEN [ok |-> TRUE, df |-> frame]
    ELSE IF "form" \notin frame.columns THEN [ok |-> FALSE, df |-> frame]
    ELSE [ok |-> TRUE,
          df |-> [frame EXCEPT !.rows = SelectSeq(frame.rows, LAMBDA r : r.form \in ff)]]

\* if keyword: df = df[df.apply(lambda r: kw in str(r.to_dict()).lower(), axis=1)]
\* On a frame without rows apply returns an empty non-boolean Series, and
\* indexing by it selects no columns.
FilterKeyword(frame, kw) ==
    IF kw = "" THEN frame
    ELSE IF frame.rows = <<>> THEN [columns |-> {}, rows |-> <<>>]
    ELSE [frame EXCEPT !.rows = SelectSeq(frame.rows, LAMBDA r : KeywordIn(kw, r))]

\* df.sort_values("filingDate", ascending=False).head(max_rows).reset_index(drop=True)
SortHead(frame, n) ==
    IF "filingDate" \notin frame.columns THEN [ok |-> FALSE, df |-> frame]
    ELSE [ok |-> TRUE, df |-> [frame EXCEPT !.rows = HeadRows(SortDesc(frame.rows), n)]]

\* the catalog builder after the "not recent" test: the frame, or a KeyError
Catalog(recent, ff, kw, n) ==
    LET f1 == FilterForms(DataFrame(Rows(recent)), ff)
    IN  IF ~f1.ok THEN f1 ELSE SortHead(FilterKeyword(f1.df, kw), n)

\* recent = company.get("filings",{}).get("recent",{})
RecentOf(c) == Get(Get(c, "filings", EmptyDict), "recent", EmptyDict)

\* if not recent: st.warning("No recent filings found."); st.stop()
\* ... df = pd.DataFrame(rows) ... filters ... sort_values ... head
BuildCatalog ==
    /\ pc = "catalog"
    /\ LET recent == RecentOf(company) IN
       IF DOMAIN recent = {}
       THEN /\ notice' = "No recent filings found."
            /\ pc' = "stopped"
            /\ df' = df
       ELSE LET c == Catalog(recent, forms_filter, keyword, max_rows) IN
            IF c.ok
            THEN /\ df' = c.df
                 /\ pc' = "render"
                 /\ notice' = notice
            ELSE /\ df' = c.df
                 /\ pc' = "crashed"
                 /\ notice' = "KeyError"
    /\ UNCHANGED <<inputVars, cik10, company, idx, ai_calls, shown, log, fetches>>
    /\ UNCHANGED <<ruleVars, cacheVars, httpVars>>

(***************************************************************************)
(* The render loop.  The primary document of a filing is its form's        *)
(* sample text; whether the fetch raises and what the AI service answers   *)
(* are the environment's choice.                                           *)
(***************************************************************************)
DocTextOf(f) == IF f = "8-K" THEN <<{"material", "financing"}>> ELSE <<{"insider"}>>

Ev(e, acc) == [ev |-> e, acc |-> acc]

\* what ai_summarize_cached returns: the service's paragraph, or "" on any exception
AiOutcomes == {"AI paragraph", ""}

\* api_key = get_secret("OPENAI_API_KEY", "")
\* if not api_key or not OpenAI: return ""
\* time.sleep(max(0.0, delay_s)); excerpt = ...; return ai_summarize_cached(...)
ai_one_paragraph_unguarded(acc, key, installed, answer) ==
    [p      |-> IF key = "" \/ ~installed THEN "" ELSE answer,
     events |-> <<Ev("sleep_ai", acc), Ev("ai_summarize_cached", acc)>>]

ai_one_paragraph(acc, key, installed, answer) ==
    IF key = "" \/ ~installed
    THEN [p |-> "", events |-> <<>>]
    ELSE [p      |-> answer,
          events |-> <<Ev("sleep_ai", acc), Ev("ai_summarize_cached", acc)>>]

\* except Exception as e: st.error(f"Document fetch failed: {e}"); continue
DocFetchFailedStop == pc' = "stopped" /\ notice' = "Document fetch failed"

DocFetchFailed == pc' = pc /\ notice' = "Document fetch failed"

NoPara == [source |-> "none", headline |-> <<>>, bits |-> <<>>]

AiParagraph(p) == [source |-> "ai", headline |-> <<p>>, bits |-> <<>>]

\* if use_ai and ai_calls < max_ai:
AiBudgetLeftInclusive(enabled, calls, budget) == enabled /\ calls <= budget

AiBudgetLeft(enabled, calls, budget) == enabled /\ calls < budget

\* one iteration of `for _, r in df.iterrows():` of app.py
RenderIter ==
    /\ variant = "app"
    /\ pc = "render"
    /\ idx < Len(df.rows)
    /\ \E fetched \in BOOLEAN, answer \in AiOutcomes :
         LET r   == df.rows[idx + 1]
             acc == r.accessionNumber
             pre == <<Ev("sleep_sec", acc), Ev("get_primary_doc_text", acc)>>
         IN
         IF ~fetched
         THEN \* except Exception as e: st.error(...); continue
              /\ log' = log \o pre
              /\ shown' = Append(shown, [accession |-> acc, outcome |-> "fetch failed",
                                         impact |-> "none", ai_attempted |-> FALSE,
                                         used_ai |-> FALSE, para |-> NoPara])
              /\ ai_calls' = ai_calls
              /\ DocFetchFailed
         ELSE LET t       == DocTextOf(r.form)
                  res     == rule_summary(r.form, t)
                  attempt == AiBudgetLeft(use_ai, ai_calls, max_ai)
                  ai      == IF attempt
                             THEN ai_one_paragraph(acc, api_key, openai_ok, answer)
                             ELSE [p |-> "", events |-> <<>>]
                  used    == attempt /\ ai.p # ""
                  para    == IF used THEN AiParagraph(ai.p)
                             ELSE compact_paragraph_from_rule(res)
              IN
              /\ log' = log \o pre \o <<Ev("rule_summary", acc)>>
                            \o (IF attempt THEN <<Ev("ai_one_paragraph", acc)>> ELSE <<>>)
                            \o ai.events
              /\ shown' = Append(shown, [accession |-> acc, outcome |-> "summary",
                                         impact |-> res.impact, ai_attempted |-> attempt,
                                         used_ai |-> used, para |-> para])
              /\ ai_calls' = IF used THEN ai_calls + 1 ELSE ai_calls
              /\ UNCHANGED <<pc, notice>>
    /\ idx' = idx + 1
    /\ UNCHANGED <<inputVars, cik10, company, df, fetches>>
    /\ UNCHANGED <<ruleVars, cacheVars, httpVars>>

\* one iteration of `for idx, r in df.iterrows():` of the earlier revision
LegacyRenderIter ==
    /\ variant = "bmnr"
    /\ pc = "render"
    /\ idx < Len(df.rows)
    /\ \E fetched \in BOOLEAN :
         LET r   == df.rows[idx + 1]
             acc == r.accessionNumber
         IN
         IF ~fetched
         THEN /\ log' = Append(log, Ev("get_primary_doc_text", acc))
              /\ shown' = Append(shown, [accession |-> acc, outcome |-> "fetch failed",
                                         impact |-> "none", ai_attempted |-> FALSE,
                                         used_ai |-> FALSE, para |-> NoPara])
              /\ pc' = pc
              /\ notice' = "Failed to fetch primary document"
         ELSE LET res == generate_rule_based_summary(r.form, DocTextOf(r.form)) IN
              /\ log' = log \o <<Ev("get_primary_doc_text", acc), Ev("sleep_sec", acc),
                                 Ev("generate_rule_based_summary", acc)>>
              /\ shown' = Append(shown, [accession |-> acc, outcome |-> "summary",
                                         impact |-> res.impact, ai_attempted |-> FALSE,
                                         used_ai |-> FALSE, para |-> NoPara])
              /\ UNCHANGED <<pc, notice>>
    /\ idx' = idx + 1
    /\ UNCHANGED <<inputVars, cik10, company, df, ai_calls, fetches>>
    /\ UNCHANGED <<ruleVars, cacheVars, httpVars>>

\* the loop is exhausted: st.caption("Data: SEC EDGAR. ...")
Finish ==
    /\ pc = "render"
    /\ idx = Len(df.rows)
    /\ pc' = "done"
    /\ UNCHANGED <<inputVars, cik10, company, df, idx, ai_calls, shown, log, notice, fetches>>
    /\ UNCHANGED <<ruleVars, cacheVars, httpVars>>

(***************************************************************************)
(* SpecCik: every identifier input within the bounds, up to the            *)
(* submissions fetch.                                                      *)
(***************************************************************************)
InitCik ==
    /\ RuleIdle
    /\ CacheIdle
    /\ HttpIdle
    /\ cikInput \in CikInputs
    /\ variant = "app"
    /\ use_ai = FALSE
    /\ max_ai = 0
    /\ api_key = ""
    /\ openai_ok = TRUE
    /\ forms_filter = {}
    /\ keyword = ""
    /\ max_rows = 1
    /\ InitPass

NextCik == Sidebar \/ Guard \/ FetchSubmissions

SpecCik == InitCik /\ [][NextCik]_vars

(***************************************************************************)
(* SpecRun: one run of the script, from the widgets to the last filing.    *)
(***************************************************************************)
InitRun ==
    /\ RuleIdle
    /\ CacheIdle
    /\ HttpIdle
    /\ cikInput \in RunCikInputs
    /\ InitInputs
    /\ InitPass

NextRun ==
    \/ Sidebar
    \/ Guard
    \/ FetchSubmissions
    \/ BuildCatalog
    \/ RenderIter
    \/ LegacyRenderIter
    \/ Finish

SpecRun == InitRun /\ [][NextRun]_vars

(***************************************************************************)
(* Claims about one script run.                                            *)
(***************************************************************************)
HasCompany == "name" \in DOMAIN company

LoopStarted == pc \in {"render", "done"}

EventsOf(acc) == SelectSeq(log, LAMBDA e : e.acc = acc)

\* C1: with AI enabled, N displayed filings and a budget max_ai = K < N,
\* exactly K filings attempt the AI path (call ai_one_paragraph), they are
\* the first K in display order, and the other N-K get the rule-based
\* paragraph without an AI attempt, whatever the AI attempts return and
\* whichever document fetches fail.  Stated for the passes in which a
\* credential is configured and every document was fetched, where the
\* first K filings in display order are the first K the loop summarises.
C1_ExactlyFirstKAttemptAi ==
    (variant = "app" /\ pc = "done" /\ use_ai /\ max_ai < Len(df.rows)
        /\ api_key # "" /\ openai_ok
        /\ \A i \in 1..Len(shown) : shown[i].outcome = "summary") =>
        /\ Cardinality({i \in 1..Len(shown) : shown[i].ai_attempted}) = max_ai
        /\ \A i \in 1..Len(shown) : shown[i].ai_attempted <=> i <= max_ai
        /\ \A i \in 1..Len(shown) :
               i > max_ai => (~shown[i].ai_attempted /\ shown[i].para.source # "ai")

\* C6: without a credential ai_one_paragraph returns "" and never raises,
\* sleeps for no pacing delay and makes no external or cached AI call, and
\* the render loop shows the rule-based paragraph, labelled rule-based.
C6_NoCredentialFallsBack ==
    (variant = "app" /\ api_key = "") =>
        /\ pc # "crashed" \/ idx = 0
        /\ \A i \in 1..Len(log) : log[i].ev \notin {"sleep_ai", "ai_summarize_cached"}
        /\ \A i \in 1..Len(shown) :
               shown[i].outcome = "summary" =>
                   /\ ~shown[i].used_ai
                   /\ shown[i].para =
                          compact_paragraph_from_rule(
                              rule_summary(df.rows[i].form, DocTextOf(df.rows[i].form)))

\* AI enabled with budget left, no credential: ai_one_paragraph was called
\* and the entry shows the rule-based paragraph
C6_Witness ==
    /\ variant = "app" /\ api_key = "" /\ use_ai /\ max_ai > 0
    /\ pc = "done"
    /\ Len(shown) >= 1
    /\ shown[1].ai_attempted
    /\ ~shown[1].used_ai
    /\ shown[1].para.source = "rule"

\* C7: the identifier pad_cik produces is the empty string exactly when the
\* input holds no digit, and otherwise a string of exactly 10 digits; when
\* it is empty the run stops before any submissions fetch.
C7_TenDigitsOrEmpty ==
    pc # "sidebar" =>
        /\ (cik10 = <<>>) <=> (\A i \in 1..Len(cikInput) : ~IsDigit(cikInput[i]))
        /\ cik10 # <<>> => (Len(cik10) = CikWidth /\ \A i \in 1..Len(cik10) : IsDigit(cik10[i]))
        /\ cik10 = <<>> => (fetches = 0 /\ pc \in {"guard", "stopped"})

\* the record's filings.recent arrays are missing or empty
NoFilingArrays == Len(Get(RecentOf(company), "accessionNumber", <<>>)) = 0

\* C8: when the filings.recent arrays are missing or empty the catalog
\* builder yields no entries and the run ends as "no filings", with no
\* document fetch and never in an error state, whatever the form filter and
\* the keyword filter are.
C8_EmptyRecentIsNoFilings ==
    (HasCompany /\ NoFilingArrays /\ pc # "catalog") =>
        /\ pc # "crashed"
        /\ df.rows = <<>>
        /\ log = <<>>

\* C10: a document fetch that fails is caught and skips that entry alone
\* (no classification, no AI attempt, no summary); the loop goes on in
\* display order and always reaches the last entry.
C10_FetchFailureSkipsOneEntry ==
    /\ pc \in {"stopped", "crashed"} => idx = 0
    /\ LoopStarted =>
        /\ Len(shown) = idx
        /\ \A i \in 1..idx : shown[i].accession = df.rows[i].accessionNumber
        /\ \A i \in 1..idx :
               shown[i].outcome = "fetch failed" =>
                   /\ shown[i].impact = "none"
                   /\ ~shown[i].ai_attempted
                   /\ shown[i].para = NoPara
                   /\ \A j \in 1..Len(EventsOf(shown[i].accession)) :
                          EventsOf(shown[i].accession)[j].ev \in {"sleep_sec", "get_primary_doc_text"}
        /\ \A i \in 1..idx : shown[i].outcome = "summary" => shown[i].impact # "none"
        /\ pc = "render" => ENABLED (RenderIter \/ LegacyRenderIter \/ Finish)
        /\ pc = "done" => idx = Len(df.rows)

\* the first fetch failed, the second filing was still summarised
C10_Witness ==
    /\ pc = "done"
    /\ Len(shown) >= 2
    /\ shown[1].outcome = "fetch failed"
    /\ shown[2].outcome = "summary"

\* the names of the events of one entry, in order
EventNamesOf(acc) == [i \in 1..Len(EventsOf(acc)) |-> EventsOf(acc)[i].ev]

\* the orders an entry's sleeps and calls may take by the specification:
\* sleep, document fetch, classification, then (if any) sleep, AI call
StatedOrders ==
    {<<"sleep_sec", "get_primary_doc_text">>} \cup
    UNION {{<<"sleep_sec", "get_primary_doc_text", c>>,
            <<"sleep_sec", "get_primary_doc_text", c, "ai_one_paragraph">>,
            <<"sleep_sec", "get_primary_doc_text", c, "ai_one_paragraph",
              "sleep_ai", "ai_summarize_cached">>} :
               c \in {"rule_summary", "generate_rule_based_summary"}}

\* C12: in every render pass each document fetch is immediately preceded by
\* the document pacing sleep and each AI call by the AI pacing sleep, of the
\* same entry; for each entry the order is sleep, document fetch,
\* classification, then (if any) sleep, AI call; and the events of one entry
\* are finished before those of the next entry start.
C12_SleepBeforeEachCall ==
    LoopStarted =>
        /\ \A i \in 1..Len(log) :
               /\ log[i].ev = "get_primary_doc_text" =>
                      (i > 1 /\ log[i - 1] = Ev("sleep_sec", log[i].acc))
               /\ log[i].ev = "ai_summarize_cached" =>
                      (i > 1 /\ log[i - 1] = Ev("sleep_ai", log[i].acc))
        /\ \A n \in 1..Len(shown) : EventNamesOf(shown[n].accession) \in StatedOrders
        /\ \A i, j, k \in 1..Len(log) :
               (i < j /\ j < k /\ log[i].acc = log[k].acc) => log[j].acc = log[i].acc
        /\ \A i, j \in 1..Len(log) :
               i < j => (\E m, n \in 1..Len(shown) :
                             /\ m <= n
                             /\ shown[m].accession = log[i].acc
                             /\ shown[n].accession = log[j].acc)

\* the entries rendered so far whose summary came from the AI path
AiShown == {i \in 1..Len(shown) : shown[i].used_ai}

AiCounterState ==
    variant = "app" =>
        /\ idx = 0 => ai_calls = 0
        /\ ai_calls = Cardinality(AiShown)
        /\ ai_calls <= max_ai
        /\ Cardinality(AiShown) <= max_ai
        /\ (~use_ai \/ max_ai = 0) =>
               /\ AiShown = {}
               /\ \A i \in 1..Len(shown) : ~shown[i].ai_attempted
               /\ \A i \in 1..Len(log) :
                      log[i].ev \notin {"ai_one_paragraph", "sleep_ai",
                                        "ai_summarize_cached"}

\* C14: throughout every render pass of app.py the counter ai_calls starts
\* at 0, never decreases, equals the number of entries so far whose summary
\* was taken from the AI path, and never exceeds max_ai; so at most max_ai
\* entries are shown with an AI summary, and with AI disabled or max_ai = 0
\* none is and ai_one_paragraph is never called.
C14_AiCallsCountsAiSummaries ==
    /\ AiCounterState
    /\ [][AiCounterState' /\ ai_calls' >= ai_calls]_vars

\* a pass used its whole budget and summarised a later entry by rule
\* without calling ai_one_paragraph
C14_Witness ==
    /\ variant = "app"
    /\ pc = "done"
    /\ use_ai
    /\ max_ai >= 1
    /\ ai_calls = max_ai
    /\ Len(shown) > max_ai
    /\ shown[Len(shown)].outcome = "summary"
    /\ ~shown[Len(shown)].ai_attempted
    /\ EventNamesOf(shown[Len(shown)].accession)
           = <<"sleep_sec", "get_primary_doc_text", "rule_summary">>

(***************************************************************************)
(* The memo of @st.cache_data(ttl=...).  Each decorated function owns a    *)
(* store keyed by its arguments; an entry is served while the clock is     *)
(* before its expiry, an exception of the function stores nothing, and     *)
(* st.cache_data.clear() empties every store.  A behaviour follows the     *)
(* store of one function.                                                  *)
(***************************************************************************)
MaxLookups == 3
MaxTicks   == 2

CachedFns == {"fetch_company_submissions", "fetch_company_ticker_map",
              "get_primary_doc_text", "ai_summarize_cached"}

\* @st.cache_data(show_spinner=False, ttl=...)
TtlOfCopied(f) == 900

TtlOf(f) ==
    CASE f = "fetch_company_submissions" -> 900
      [] f = "fetch_company_ticker_map"  -> 3600
      [] f = "get_primary_doc_text"      -> 3600
      [] f = "ai_summarize_cached"       -> 7 * 24 * 3600

Models  == {"gpt-4o-mini", "gpt-4o"}
ApiKeys == {"", "sk-1", "sk-2"}

\* the argument tuples a function is called with
KeysOf(f) ==
    CASE f = "fetch_company_submissions" -> {<<"0000000007">>, <<"0000000008">>}
      [] f = "fetch_company_ticker_map"  -> {<<>>}
      [] f = "get_primary_doc_text"      -> {<<"0000000007", 1, "doc.htm">>,
                                             <<"0000000007", 2, "doc.htm">>}
      [] f = "ai_summarize_cached"       -> {<<1, "8-K", "excerpt", m, k>> :
                                                 m \in Models, k \in ApiKeys}

\* the body of an HTTP-backed function: r.raise_for_status(); return ...
HttpProducer(ext, t) ==
    IF ext = "ok"
    THEN [raised |-> FALSE, val |-> [body |-> "content", made |-> t],
          ext_called |-> TRUE, ext_failed |-> FALSE]
    ELSE [raised |-> TRUE, val |-> [body |-> "", made |-> t],
          ext_called |-> TRUE, ext_failed |-> TRUE]

\* the body of ai_summarize_cached: "" without a credential; the paragraph
\* of the service; "" on any exception of the call
AiProducer(k, ext, t) ==
    IF k[5] = ""
    THEN [raised |-> FALSE, val |-> [body |-> "", made |-> t],
          ext_called |-> FALSE, ext_failed |-> FALSE]
    ELSE IF ext = "ok"
    THEN [raised |-> FALSE, val |-> [body |-> "paragraph", made |-> t],
          ext_called |-> TRUE, ext_failed |-> FALSE]
    ELSE [raised |-> FALSE, val |-> [body |-> "", made |-> t],
          ext_called |-> TRUE, ext_failed |-> TRUE]

Producer(f, k, ext, t) ==
    IF f = "ai_summarize_cached" THEN AiProducer(k, ext, t) ELSE HttpProducer(ext, t)

\* an entry is served strictly before its expiry
Fresh(e, f, t) == e.present /\ t < e.at + TtlOf(f)

\* the key of an entry: st.cache_data hashes every argument of the call;
\* for ai_summarize_cached these are accession, form, excerpt, model, api_key
CacheKeyWithoutSecrets(f, k) ==
    IF f = "ai_summarize_cached" THEN <<k[1], k[2], k[3], "gpt-4o-mini", "">> ELSE k

CacheKey(f, k) == k

\* a call of the decorated function f with arguments k at time t; an entry
\* and a result carry the arguments of the call that computed them
CachedCall(f, k, ext, t) ==
    LET c == CacheKey(f, k) IN
    IF Fresh(cache[c], f, t)
    THEN [store |-> cache,
          out   |-> [key |-> k, ret |-> cache[c].val, raised |-> FALSE,
                     invoked |-> FALSE, ext_called |-> FALSE, ext_failed |-> FALSE,
                     by |-> cache[c].by]]
    ELSE LET r == Producer(f, k, ext, t) IN
         [store |-> [cache EXCEPT ![c] = IF r.raised THEN NoEntry
                                         ELSE [present |-> TRUE, at |-> t,
                                               val |-> r.val, by |-> k]],
          out   |-> [key |-> k, ret |-> r.val, raised |-> r.raised,
                     invoked |-> TRUE, ext_called |-> r.ext_called,
                     ext_failed |-> r.ext_failed, by |-> k]]

InitCache ==
    /\ RuleIdle
    /\ RunIdle
    /\ HttpIdle
    /\ cachedFn \in CachedFns
    /\ now = 0
    /\ cache = [k \in KeysOf(cachedFn) |-> NoEntry]
    /\ last = NoLookup
    /\ ticks = 0

Call(f) ==
    /\ cachedFn = f
    /\ last.n < MaxLookups
    /\ \E k \in KeysOf(f), ext \in {"ok", "fail"} :
         LET c == CachedCall(f, k, ext, now) IN
         /\ cache' = c.store
         /\ last' = [n |-> last.n + 1] @@ c.out
    /\ UNCHANGED <<cachedFn, now, ticks>>
    /\ UNCHANGED <<ruleVars, runVars, httpVars>>

\* company = fetch_company_submissions(cik10)
CallFetchCompanySubmissions == Call("fetch_company_submissions")

\* df = fetch_company_ticker_map()
CallFetchCompanyTickerMap == Call("fetch_company_ticker_map")

\* text = get_primary_doc_text(cik10, r['accessionNumber'], r['primaryDocument'])
CallGetPrimaryDocText == Call("get_primary_doc_text")

\* return ai_summarize_cached(accession, form, excerpt, model, api_key)
CallAiSummarizeCached == Call("ai_summarize_cached")

\* if st.button("Clear summary cache"): st.cache_data.clear()
ClearCache ==
    /\ cachedFn \in CachedFns
    /\ {k \in DOMAIN cache : cache[k].present} # {}
    /\ cache' = [k \in DOMAIN cache |-> NoEntry]
    /\ UNCHANGED <<cachedFn, now, last, ticks>>
    /\ UNCHANGED <<ruleVars, runVars, httpVars>>

\* the instants around the expiry of the stored entries, and the next second
Instants ==
    {now + 1} \cup
    UNION {{cache[k].at + TtlOf(cachedFn) - 1, cache[k].at + TtlOf(cachedFn),
            cache[k].at + TtlOf(cachedFn) + 1} : k \in {j \in DOMAIN cache : cache[j].present}}

\* time passes
Tick ==
    /\ cachedFn \in CachedFns
    /\ ticks < MaxTicks
    /\ \E t \in Instants : t > now /\ now' = t
    /\ ticks' = ticks + 1
    /\ UNCHANGED <<cachedFn, cache, last>>
    /\ UNCHANGED <<ruleVars, runVars, httpVars>>

NextCache ==
    \/ CallFetchCompanySubmissions
    \/ CallFetchCompanyTickerMap
    \/ CallGetPrimaryDocText
    \/ CallAiSummarizeCached
    \/ ClearCache
    \/ Tick

SpecCache == InitCache /\ [][NextCache]_vars

\* the time to live the specification states for each cached operation
StatedTtl(f) ==
    CASE f = "fetch_company_submissions" -> 900
      [] f = "fetch_company_ticker_map"  -> 3600
      [] f = "get_primary_doc_text"      -> 3600
      [] f = "ai_summarize_cached"       -> 604800

\* C2: a lookup whose external call failed stores no cache entry, so the
\* next lookup with the same key invokes the external call again; this
\* holds for fetch_company_submissions, get_primary_doc_text and
\* ai_summarize_cached.
C2_FailuresAreNotStored ==
    (cachedFn \in {"fetch_company_submissions", "get_primary_doc_text",
                   "ai_summarize_cached"}
        /\ last.n > 0 /\ last.ext_failed) => ~cache[last.key].present

\* C9: a value produced at time T and looked up with the same key strictly
\* before T + TTL is returned from the cache without invoking the producer;
\* a lookup after T + TTL invokes the producer again (TTL = 900 s for the
\* submissions record, 3600 s for the ticker map and document text, 7 days
\* for AI summaries).  A value counts while no clear has removed it.
C9_TtlWindow ==
    [][ last'.n = last.n + 1 =>
            LET e   == cache[last'.key]
                ttl == StatedTtl(cachedFn)
            IN  e.present =>
                    /\ now < e.at + ttl =>
                           (~last'.invoked /\ ~last'.raised /\ last'.ret = e.val
                                /\ cache' = cache)
                    /\ now > e.at + ttl => last'.invoked ]_vars

\* a document text produced at T was served from the cache at T + 3599
C9_Witness ==
    /\ cachedFn = "get_primary_doc_text"
    /\ last.n >= 2
    /\ ~last.invoked
    /\ cache[last.key].present
    /\ now = cache[last.key].at + 3599
    /\ last.ret.made = cache[last.key].at

\* the model and the credential among the arguments of ai_summarize_cached
ModelOf(k) == k[4]

CredentialOf(k) == k[5]

\* C13: two lookups of ai_summarize_cached that differ in credential or in
\* model never share a cache entry: whatever a lookup returns (an empty
\* result included) was computed under the credential and the model of that
\* lookup, and every stored entry sits under the credential and the model
\* that computed it, after any sequence of lookups, clears and clock steps.
C13_NoSharingAcrossCredentialOrModel ==
    cachedFn = "ai_summarize_cached" =>
        /\ last.n > 0 =>
               /\ ModelOf(last.by) = ModelOf(last.key)
               /\ CredentialOf(last.by) = CredentialOf(last.key)
        /\ \A k \in DOMAIN cache :
               cache[k].present =>
                   /\ ModelOf(cache[k].by) = ModelOf(k)
                   /\ CredentialOf(cache[k].by) = CredentialOf(k)

\* a lookup was served from the cache while the store also held a result,
\* of different content, computed for the same filing and model under
\* another credential
C13_Witness ==
    /\ cachedFn = "ai_summarize_cached"
    /\ last.n >= 2
    /\ ~last.invoked
    /\ \E k \in DOMAIN cache :
           /\ cache[k].present
           /\ ModelOf(k) = ModelOf(last.key)
           /\ CredentialOf(k) # CredentialOf(last.key)
           /\ cache[k].val.body # last.ret.body

(***************************************************************************)
(* SpecHttp: one GET through SESSION.  make_session mounts an HTTPAdapter  *)
(* whose Retry allows 4 re-sends in total (and 4 per connect and per read  *)
(* error), re-sends a GET answered with a status of status_forcelist, and, *)
(* by Retry's defaults (respect_retry_after_header), one answered with     *)
(* 413, 429 or 503 carrying a Retry-After header while re-sends are left.  *)
(* With raise_on_status=False the last response is handed back when the    *)
(* re-sends are used up; exhausted connect/read errors raise.  The tail of *)
(* the fetching function then runs r.raise_for_status().                   *)
(***************************************************************************)
RetryTotal   == 4
RetryRead    == 4
RetryConnect == 4

StatusForcelist == {403, 429, 500, 502, 503, 504}

\* Retry.RETRY_AFTER_STATUS_CODES, honoured since respect_retry_after_header
\* is left at its default
RetryAfterStatusCodes == {413, 429, 503}

HttpFns == {"fetch_company_submissions", "fetch_company_ticker_map",
            "get_primary_doc_text"}

\* what the wire can give for one request
Responses ==
    {[kind |-> "status", status |-> s, retry_after |-> FALSE] :
         s \in {200, 404, 413} \cup StatusForcelist}
    \cup {[kind |-> "status", status |-> s, retry_after |-> TRUE] :
              s \in RetryAfterStatusCodes}
    \cup {[kind |-> k, status |-> 0, retry_after |-> FALSE] :
              k \in {"connect_error", "read_error"}}

\* Retry(total=4, read=4, connect=4, ...)
make_session == [total |-> RetryTotal, connect |-> RetryConnect, read |-> RetryRead]

\* Retry.is_retry for a GET (allowed_methods=["GET"])
is_retry(rt, resp) ==
    \/ resp.status \in StatusForcelist
    \/ rt.total # 0 /\ resp.retry_after /\ resp.status \in RetryAfterStatusCodes

\* Retry.increment
increment(rt, resp) ==
    [total   |-> rt.total - 1,
     connect |-> IF resp.kind = "connect_error" THEN rt.connect - 1 ELSE rt.connect,
     read    |-> IF resp.kind = "read_error" THEN rt.read - 1 ELSE rt.read]

\* Retry.is_exhausted
is_exhausted(rt) == rt.total < 0 \/ rt.connect < 0 \/ rt.read < 0

\* Response.raise_for_status raises HTTPError for 4xx and 5xx
raise_for_status(status) == 400 <= status /\ status < 600

\* if r.status_code == 403: st.warning(...)      (fetch_company_submissions)
\* r.raise_for_status(); return r.json()
FetchTailUnchecked(f, status) ==
    [notice |-> IF f = "fetch_company_submissions" /\ status = 403
                THEN "SEC 403" ELSE "none",
     result |-> "data",
     pc     |-> "returned"]

FetchTail(f, status) ==
    [notice |-> IF f = "fetch_company_submissions" /\ status = 403
                THEN "SEC 403" ELSE "none",
     result |-> IF raise_for_status(status) THEN "HTTPError" ELSE "data",
     pc     |-> IF raise_for_status(status) THEN "raised" ELSE "returned"]

InitHttp ==
    /\ RuleIdle
    /\ RunIdle
    /\ CacheIdle
    /\ httpFn \in HttpFns
    /\ httpPc = "idle"
    /\ retry = NoRetry
    /\ attempts = 0
    /\ response = NoResponse
    /\ retried = <<>>
    /\ result = "none"
    /\ httpNotice = "none"

\* r = SESSION.get(url, timeout=...)
SessionGet ==
    /\ httpPc = "idle"
    /\ httpFn \in HttpFns
    /\ httpPc' = "sending"
    /\ retry' = make_session
    /\ UNCHANGED <<httpFn, attempts, response, retried, result, httpNotice>>
    /\ UNCHANGED <<ruleVars, runVars, cacheVars>>

\* one request on the wire and what urlopen does with the answer: send
\* again, raise, or hand the response to the fetching function, whose tail
\* then runs
Send ==
    /\ httpPc = "sending"
    /\ \E resp \in Responses :
         LET failed == resp.kind # "status"
             again  == failed \/ is_retry(retry, resp)
             rt     == increment(retry, resp)
         IN
         /\ attempts' = attempts + 1
         /\ response' = resp
         /\ retry' = IF again THEN rt ELSE retry
         /\ IF again /\ ~is_exhausted(rt)
            THEN /\ retried' = Append(retried, resp)
                 /\ UNCHANGED <<httpPc, result, httpNotice>>
            ELSE IF failed
            THEN \* MaxRetryError, raised by requests as ConnectionError
                 /\ httpPc' = "raised"
                 /\ result' = "ConnectionError"
                 /\ UNCHANGED <<retried, httpNotice>>
            ELSE LET t == FetchTail(httpFn, resp.status) IN
                 /\ httpPc' = t.pc
                 /\ result' = t.result
                 /\ httpNotice' = t.notice
                 /\ UNCHANGED retried
    /\ UNCHANGED httpFn
    /\ UNCHANGED <<ruleVars, runVars, cacheVars>>

NextHttp == SessionGet \/ Send

SpecHttp == InitHttp /\ [][NextHttp]_vars

\* the statuses the specification lists as retried
StatedRetryStatuses == {403, 429, 500, 502, 503, 504}

\* the GET is over after at most 4 re-sends, and a failing status never
\* comes back to the caller as data
BoundedThenRaises ==
    /\ Len(retried) <= 4
    /\ attempts <= 5
    /\ httpPc = "sending" => attempts = Len(retried)
    /\ httpPc \in {"returned", "raised"} => attempts = Len(retried) + 1
    /\ (httpPc \in {"returned", "raised"} /\ response.kind = "status"
            /\ response.status >= 400)
           => (httpPc = "raised" /\ result = "HTTPError")
    /\ result = "data" => (response.kind = "status" /\ response.status = 200)
    /\ httpPc = "returned" <=> result = "data"

\* C11 as stated: every GET through the shared session ends after a bounded
\* number of attempts; only a status in {403, 429, 500, 502, 503, 504} or a
\* connect/read failure is re-sent, at most 4 times; no other status is
\* re-sent; and when the re-sends are used up with a failing status the
\* fetching function raises instead of returning data.
C11_OnlyListedStatusesRetried ==
    /\ BoundedThenRaises
    /\ \A i \in 1..Len(retried) :
           retried[i].kind = "status" => retried[i].status \in StatedRetryStatuses

\* C11, amended: as stated, except that a 413 answer carrying a Retry-After
\* header is also re-sent while re-sends are left (it counts against the
\* same 4); no status other than these is re-sent.
C11_BoundedRetriesThenRaise ==
    /\ BoundedThenRaises
    /\ \A i \in 1..Len(retried) :
           retried[i].kind = "status" =>
               \/ retried[i].status \in StatedRetryStatuses
               \/ retried[i].status = 413 /\ retried[i].retry_after

\* four re-sends, one of them after a 413 with Retry-After, were used up on
\* a listed status and the fetching function raised HTTPError
C11_Witness ==
    /\ httpPc = "raised"
    /\ result = "HTTPError"
    /\ attempts = 5
    /\ Len(retried) = 4
    /\ response.kind = "status"
    /\ response.status \in StatedRetryStatuses
    /\ \E i \in 1..4 : retried[i].status = 413
    /\ \E i \in 1..4 : retried[i].kind = "read_error"

(***************************************************************************)
(* SpecRule: the classifier on every (form, text) within the bounds.       *)
(***************************************************************************)
InitRule ==
    /\ form \in Forms
    /\ text \in Texts
    /\ rs = NoResult
    /\ fn = "none"
    /\ paragraph = NoResult
    /\ RunIdle
    /\ CacheIdle
    /\ HttpIdle

\* rs = rule_summary(r['form'], text); para = compact_paragraph_from_rule(rs)
RuleSummary ==
    /\ fn = "none"
    /\ rs' = rule_summary(form, text)
    /\ fn' = "rule_summary"
    /\ paragraph' = compact_paragraph_from_rule(rs')
    /\ UNCHANGED <<form, text>>
    /\ UNCHANGED <<runVars, cacheVars, httpVars>>

\* summary = generate_rule_based_summary(r['form'], text)
GenerateRuleBasedSummary ==
    /\ fn = "none"
    /\ rs' = generate_rule_based_summary(form, text)
    /\ fn' = "generate_rule_based_summary"
    /\ UNCHANGED <<form, text, paragraph>>
    /\ UNCHANGED <<runVars, cacheVars, httpVars>>

NextRule == RuleSummary \/ GenerateRuleBasedSummary

SpecRule == InitRule /\ [][NextRule]_vars

(***************************************************************************)
(* Classifier claims.                                                      *)
(***************************************************************************)
Classified == fn \in {"rule_summary", "generate_rule_based_summary"}

B2N(b) == IF b THEN 1 ELSE 0

\* the score as the specification states it
StatedScore(h) == 2 * B2N(h["buyback"]) - 2 * B2N(h["financing"]) + B2N(h["material"])

\* C3: for every combination of the six hits the impact is Positive iff
\* score >= 2, Negative iff score <= -2 and Neutral otherwise, with
\* score = +2 buyback, -2 financing, +1 material and nothing for insider,
\* crypto and guidance; the impact is one of Positive, Neutral, Negative.
C3_ImpactFollowsScore ==
    Classified =>
        LET s == StatedScore(Hits(text)) IN
        /\ rs.impact \in {"Positive", "Neutral", "Negative"}
        /\ (rs.impact = "Positive") <=> (s >= 2)
        /\ (rs.impact = "Negative") <=> (s <= -2)
        /\ (rs.impact = "Neutral") <=> (s > -2 /\ s < 2)

\* a filing with buyback, financing and material hits was classified Neutral
C3_Witness ==
    /\ fn = "rule_summary"
    /\ Hits(text)["buyback"] /\ Hits(text)["financing"] /\ Hits(text)["material"]
    /\ rs.impact = "Neutral"

\* C4: the headline suffix follows the priority buyback > financing >
\* material > insider > "no strong signal" and depends on the hits only:
\* buyback always gives "buyback mentioned" (also with financing, where the
\* impact is Neutral); financing alone is Negative with "financing/dilution
\* signals"; material alone is Neutral with "material agreement or event".
C4_HeadlinePriority ==
    Classified =>
        LET h      == Hits(text)
            suffix == rs.headline[3]
            only(k) == h[k] /\ \A j \in Categories \ {k} : ~h[j]
        IN
        /\ rs.headline[1] = form
        /\ rs.headline[2] = rs.impact
        /\ h["buyback"] => suffix = "buyback mentioned"
        /\ (~h["buyback"] /\ h["financing"]) => suffix = "financing/dilution signals"
        /\ (~h["buyback"] /\ ~h["financing"] /\ h["material"])
               => suffix = "material agreement or event"
        /\ (~h["buyback"] /\ ~h["financing"] /\ ~h["material"] /\ h["insider"])
               => suffix = "insider/ownership update"
        /\ (~h["buyback"] /\ ~h["financing"] /\ ~h["material"] /\ ~h["insider"])
               => suffix = "no strong signal"
        /\ (h["buyback"] /\ h["financing"] /\ ~h["material"]) => rs.impact = "Neutral"
        /\ only("financing") => rs.impact = "Negative"
        /\ only("material") => rs.impact = "Neutral"

\* buyback and financing both hit: headlined as a buyback, classified Neutral
C4_Witness ==
    /\ fn = "rule_summary"
    /\ Hits(text)["buyback"] /\ Hits(text)["financing"] /\ ~Hits(text)["material"]
    /\ rs.headline[3] = "buyback mentioned"
    /\ rs.impact = "Neutral"

BulletOrder == <<"material", "financing", "buyback", "insider", "crypto", "guidance">>

BulletFor(k) ==
    CASE k = "material"  -> BulletMaterial
      [] k = "financing" -> BulletFinancing
      [] k = "buyback"   -> BulletBuyback
      [] k = "insider"   -> BulletInsider
      [] k = "crypto"    -> BulletCrypto
      [] k = "guidance"  -> BulletGuidance

\* C5: one bullet per hit category (all six), always in the order material,
\* financing, buyback, insider, crypto, guidance; the list is empty exactly
\* when nothing is hit, and then the impact is Neutral and the headline
\* ends with "no strong signal".
C5_BulletsPerHit ==
    Classified =>
        LET h    == Hits(text)
            hit(k) == h[k]
            want == SelectSeq(BulletOrder, hit)
        IN
        /\ Len(rs.bullets) = Cardinality({k \in Categories : h[k]})
        /\ \A i \in 1..Len(want) : rs.bullets[i] = BulletFor(want[i])
        /\ (rs.bullets = <<>>) <=> (\A k \in Categories : ~h[k])
        /\ (rs.bullets = <<>>) =>
               (rs.impact = "Neutral" /\ rs.headline[3] = "no strong signal")

\* only the three non-scoring categories are hit: three bullets, in order
C5_Witness ==
    /\ fn = "rule_summary"
    /\ \A k \in Categories : Hits(text)[k] <=> k \in {"insider", "crypto", "guidance"}
    /\ rs.bullets = <<BulletInsider, BulletCrypto, BulletGuidance>>

====
